---------------------------- MODULE Spec2Model ----------------------------
(***************************************************************************)
(* Build-analyzer: the transformation of a raw webpack stats object into   *)
(* the normalized build statistics (normalizeWebpackStats), and the views  *)
(* the webview derives from them: the visible module list                  *)
(* (filteredModules), the treemap hierarchy (rootData, d3.hierarchy) and   *)
(* the links of the graph; and the extension host, which keeps one panel,  *)
(* loads the stats files the user picks and posts the outcome to the       *)
(* webview (extension.ts, webviewManager.ts, App.tsx).                     *)
(*                                                                         *)
(* Conventions.  A JavaScript string is a sequence of one-character        *)
(* strings, so that split, toLowerCase, endsWith and includes are computed *)
(* character by character.  An optional field (x?: T) or a nullable value  *)
(* is a sequence of length at most one: <<>> when it is undefined/null,    *)
(* <<v>> when it holds v.  Objects held by reference (the modules that     *)
(* moduleMap points to, the nodes of the treemap) are positions in a       *)
(* sequence.                                                               *)
(***************************************************************************)
EXTENDS Integers, Sequences, FiniteSets, TLC

VARIABLES
    rawStats,     \* the parsed content of the stats file (WebpackStats)
    stats,        \* App state `stats`: <<>> (null) or <<NormalizedBuildStats>>
    searchTerm,   \* App state `searchTerm`
    activeTypes,  \* App state `activeTypes`: type name -> boolean
    filePath,     \* App state `filePath`
    isLoading,    \* App state `isLoading`
    error,        \* App state `error`: <<>> (null) or <<message>>
    currentPath,  \* TreemapVisualization state `currentPath`
    currentPanel, \* WebviewManager.currentPanel: <<>> (undefined) or <<panel>>
    panels,       \* the panels created so far, each "open" or "disposed"
    disposables,  \* WebviewManager._disposables
    loads,        \* the calls of promptAndLoadStatsFile, in call order
    toHost,       \* messages the webview posted, not yet received
    toWebview     \* messages posted to the webview, not yet received

\* The state of the App component and of its treemap.
appVars == <<stats, searchTerm, activeTypes, filePath, isLoading, error, currentPath>>

\* The state of the extension host and the messages in flight.
hostVars == <<currentPanel, panels, disposables, loads, toHost, toWebview>>

vars == <<rawStats, appVars, hostVars>>

Range(s) == {s[i] : i \in DOMAIN s}

-----------------------------------------------------------------------------
(* Bounds of the model.                                                    *)

MaxModules == 3     \* raw modules in one stats file
MaxReasons == 2     \* reasons in one stats file, over all its modules
MaxAssets == 2      \* raw assets in one stats file
MaxChunks == 1      \* raw chunks in one stats file
MaxSize == 2        \* sizes are 0, 5, .., 5 * MaxSize bytes
MaxViewModules == 2 \* raw modules in a stats file of the filter views
MaxGraphReasons == 1 \* reasons in a stats file of the graph view
MaxDrillModules == 2 \* raw modules in a stats file of the drilled treemap
MaxPanels == 2      \* panels the host creates
MaxListeners == 2   \* message callbacks registered with the WebviewManager
MaxLoads == 2       \* calls of promptAndLoadStatsFile

-----------------------------------------------------------------------------
(* JavaScript strings.                                                     *)

UpperCase == <<"A", "B", "C", "D", "E", "F", "G", "H", "I", "J", "K", "L", "M", "N", "O", "P", "Q", "R", "S", "T", "U", "V", "W", "X", "Y", "Z">>
LowerCase == <<"a", "b", "c", "d", "e", "f", "g", "h", "i", "j", "k", "l", "m", "n", "o", "p", "q", "r", "s", "t", "u", "v", "w", "x", "y", "z">>
Digits == <<"0", "1", "2", "3", "4", "5", "6", "7", "8", "9">>

toLowerCaseChar(c) ==
    IF \E i \in 1..Len(UpperCase) : UpperCase[i] = c
    THEN LowerCase[CHOOSE i \in 1..Len(UpperCase) : UpperCase[i] = c]
    ELSE c

\* String.prototype.toLowerCase
toLowerCase(s) == [i \in 1..Len(s) |-> toLowerCaseChar(s[i])]

\* String.prototype.endsWith
endsWith(s, suffix) ==
    /\ Len(s) >= Len(suffix)
    /\ SubSeq(s, Len(s) - Len(suffix) + 1, Len(s)) = suffix

\* String.prototype.includes
includes(s, t) ==
    \E i \in 0..(Len(s) - Len(t)) : SubSeq(s, i + 1, i + Len(t)) = t

\* String.prototype.split('/'): the segments between the slashes; a string
\* without a slash (the empty string too) gives one segment.
RECURSIVE split(_)
split(s) ==
    IF \E i \in 1..Len(s) : s[i] = "/"
    THEN LET i == CHOOSE k \in 1..Len(s) :
                      s[k] = "/" /\ \A j \in 1..(k - 1) : s[j] # "/"
         IN  <<SubSeq(s, 1, i - 1)>> \o split(SubSeq(s, i + 1, Len(s)))
    ELSE <<s>>

\* Array.prototype.join('/')
RECURSIVE join(_)
join(parts) ==
    IF Len(parts) = 0 THEN <<>>
    ELSE IF Len(parts) = 1 THEN parts[1]
    ELSE parts[1] \o <<"/">> \o join(Tail(parts))

\* The decimal digits of a natural number.
RECURSIVE NumberToString(_)
NumberToString(n) ==
    IF n < 10 THEN <<Digits[n + 1]>>
    ELSE NumberToString(n \div 10) \o <<Digits[(n % 10) + 1]>>

\* A raw id (string | number) is [isNumber, number, string].
NumberId(n) == [isNumber |-> TRUE, number |-> n, string |-> <<>>]
StringId(s) == [isNumber |-> FALSE, number |-> 0, string |-> s]

\* String(x) for a raw id: a string is itself, a number its decimal digits.
String(id) == IF id.isNumber THEN NumberToString(id.number) ELSE id.string

-----------------------------------------------------------------------------
(* processing.ts: the size estimator and the type classifier.              *)

\* Math.floor(rawSize * 0.3).  For the integers a size can be, the double
\* product rawSize * 0.3 has the floor of the exact 3 * rawSize / 10.
approximateGzipSize(rawSize) == (rawSize * 3) \div 10

getTypeFromName(name) ==
    LET lowerName == toLowerCase(name) IN
    IF \/ endsWith(lowerName, <<".", "j", "s">>) \/ endsWith(lowerName, <<".", "j", "s", "x">>)
       \/ endsWith(lowerName, <<".", "t", "s">>) \/ endsWith(lowerName, <<".", "t", "s", "x">>)
    THEN "js"
    ELSE IF \/ endsWith(lowerName, <<".", "c", "s", "s">>) \/ endsWith(lowerName, <<".", "s", "c", "s", "s">>)
            \/ endsWith(lowerName, <<".", "l", "e", "s", "s">>)
    THEN "css"
    ELSE IF \/ endsWith(lowerName, <<".", "p", "n", "g">>) \/ endsWith(lowerName, <<".", "j", "p", "g">>)
            \/ endsWith(lowerName, <<".", "j", "p", "e", "g">>) \/ endsWith(lowerName, <<".", "g", "i", "f">>)
            \/ endsWith(lowerName, <<".", "s", "v", "g">>)
    THEN "image"
    ELSE IF \/ endsWith(lowerName, <<".", "w", "o", "f", "f">>) \/ endsWith(lowerName, <<".", "w", "o", "f", "f", "2">>)
            \/ endsWith(lowerName, <<".", "t", "t", "f">>) \/ endsWith(lowerName, <<".", "o", "t", "f">>)
    THEN "font"
    ELSE IF endsWith(lowerName, <<".", "j", "s", "o", "n">>) THEN "json"
    ELSE IF endsWith(lowerName, <<".", "w", "a", "s", "m">>) THEN "wasm"
    ELSE IF endsWith(lowerName, <<".", "m", "a", "p">>) THEN "map"
    ELSE IF endsWith(lowerName, <<".", "h", "t", "m", "l">>) THEN "html"
    ELSE "unknown"

-----------------------------------------------------------------------------
(* processing.ts: normalizeWebpackStats.                                   *)

\* m.name.split('/').pop() || m.name
lastPathPart(name) ==
    LET parts == split(name)
        last == parts[Len(parts)]
    IN  IF last # <<>> THEN last ELSE name

\* The record the first pass makes of one raw module (the d3 simulation
\* fields and buildTime, all undefined, are left out).
newNormalizedModule(m) ==
    [ id |-> String(m.id),
      name |-> lastPathPart(m.name),
      path |-> m.name,
      size |-> [raw |-> m.size, gzip |-> approximateGzipSize(m.size)],
      type |-> getTypeFromName(m.name),
      dependencies |-> <<>>,
      dependents |-> <<>> ]

\* First pass: normalizedModules.push(normalizedModule) for every raw module.
createModules(rawModules) ==
    [i \in 1..Len(rawModules) |-> newNormalizedModule(rawModules[i])]

\* First pass: moduleMap.set(id, normalizedModule) for every raw module, in
\* order; a later set of the same key replaces the earlier one.  The module
\* a key refers to is given by its position in normalizedModules.
RECURSIVE setModuleMap(_, _, _)
setModuleMap(moduleMap, rawModules, i) ==
    IF i > Len(rawModules) THEN moduleMap
    ELSE LET id == String(rawModules[i].id)
             set == [k \in (DOMAIN moduleMap) \cup {id} |->
                        IF k = id THEN i ELSE moduleMap[k]]
         IN  setModuleMap(set, rawModules, i + 1)

createModuleMap(rawModules) == setModuleMap(<<>>, rawModules, 1)

\* reasonResolves without the comparison with the source's id.
reasonResolvesToSelf(moduleMap, sourceModuleId, targetModuleId) ==
    targetModuleId \in DOMAIN moduleMap

\* moduleMap.has(targetModuleId) && sourceModuleId !== targetModuleId
reasonResolves(moduleMap, sourceModuleId, targetModuleId) ==
    targetModuleId \in DOMAIN moduleMap /\ sourceModuleId # targetModuleId

\* addDependency without the push to the target's dependents.
addDependencyOnly(modules, moduleMap, sourceModuleId, targetModuleId) ==
    [modules EXCEPT ![moduleMap[sourceModuleId]].dependencies =
                        Append(@, targetModuleId)]

\* sourceModule.dependencies.push(targetModuleId);
\* targetModule.dependents.push(sourceModuleId)
addDependency(modules, moduleMap, sourceModuleId, targetModuleId) ==
    LET s == moduleMap[sourceModuleId]
        t == moduleMap[targetModuleId]
        pushed == [modules EXCEPT
                      ![s].dependencies = Append(@, targetModuleId)]
    IN  [pushed EXCEPT ![t].dependents = Append(@, sourceModuleId)]

\* m.reasons.forEach(reason => ...) of one raw module, from reason j on.
RECURSIVE resolveReasons(_, _, _, _, _)
resolveReasons(modules, moduleMap, sourceModuleId, reasons, j) ==
    IF j > Len(reasons) THEN modules
    ELSE LET targetModuleId == String(reasons[j].moduleIdentifier)
             next == IF reasonResolves(moduleMap, sourceModuleId,
                                       targetModuleId)
                     THEN addDependency(modules, moduleMap, sourceModuleId,
                                        targetModuleId)
                     ELSE modules
         IN  resolveReasons(next, moduleMap, sourceModuleId, reasons, j + 1)

\* resolveModules in one pass with the first: a reason resolves only to a
\* module at or before its own module in the list.
RECURSIVE resolveModulesSeenOnly(_, _, _, _)
resolveModulesSeenOnly(modules, moduleMap, rawModules, i) ==
    IF i > Len(rawModules) THEN modules
    ELSE LET m == rawModules[i]
             sourceModuleId == String(m.id)
             seen == {String(rawModules[k].id) : k \in 1..i}
             seenMap == [k \in (DOMAIN moduleMap) \cap seen |-> moduleMap[k]]
             next == IF sourceModuleId \in DOMAIN moduleMap
                        /\ m.reasons # <<>>
                     THEN resolveReasons(modules, seenMap, sourceModuleId,
                                         m.reasons[1], 1)
                     ELSE modules
         IN  resolveModulesSeenOnly(next, moduleMap, rawModules, i + 1)

\* Second pass: rawStats.modules.forEach(m => ...), from raw module i on.
RECURSIVE resolveModules(_, _, _, _)
resolveModules(modules, moduleMap, rawModules, i) ==
    IF i > Len(rawModules) THEN modules
    ELSE LET m == rawModules[i]
             sourceModuleId == String(m.id)
             next == IF sourceModuleId \in DOMAIN moduleMap
                        /\ m.reasons # <<>>
                     THEN resolveReasons(modules, moduleMap, sourceModuleId,
                                         m.reasons[1], 1)
                     ELSE modules
         IN  resolveModules(next, moduleMap, rawModules, i + 1)

\* rawStats.modules, or no module when the field is absent.
rawModulesOf(raw) == IF raw.modules # <<>> THEN raw.modules[1] ELSE <<>>

\* The id -> module index of a load.
moduleMapOf(raw) == createModuleMap(rawModulesOf(raw))

\* "Process Modules": both passes.
normalizeModules(raw) ==
    resolveModules(createModules(rawModulesOf(raw)), moduleMapOf(raw),
                   rawModulesOf(raw), 1)

\* a.chunks.map(String), c.modules.map(m => String(m.id))
mapString(ids) == [i \in 1..Len(ids) |-> String(ids[i])]
mapModuleId(ms) == [i \in 1..Len(ms) |-> String(ms[i].id)]

newNormalizedAsset(a) ==
    [ name |-> a.name,
      size |-> [raw |-> a.size, gzip |-> approximateGzipSize(a.size)],
      type |-> getTypeFromName(a.name),
      chunks |-> IF a.chunks # <<>> THEN mapString(a.chunks[1]) ELSE <<>> ]

\* "Process Assets": the normalized assets.
normalizeAssets(raw) ==
    IF raw.assets # <<>>
    THEN [i \in 1..Len(raw.assets[1]) |-> newNormalizedAsset(raw.assets[1][i])]
    ELSE <<>>

\* totalRawSize that stops before the last asset.
RECURSIVE totalRawSizeButLast(_, _, _)
totalRawSizeButLast(total, rawAssets, i) ==
    IF i >= Len(rawAssets) THEN total
    ELSE totalRawSizeButLast(total + rawAssets[i].size, rawAssets, i + 1)

\* totalRawSize += a.size, over the raw assets from i on.
RECURSIVE totalRawSize(_, _, _)
totalRawSize(total, rawAssets, i) ==
    IF i > Len(rawAssets) THEN total
    ELSE totalRawSize(total + rawAssets[i].size, rawAssets, i + 1)

\* totalGzipSize as the estimate of the summed raw sizes.
RECURSIVE totalGzipSizeOfTotal(_, _, _)
totalGzipSizeOfTotal(total, assets, i) ==
    IF i > Len(assets) THEN approximateGzipSize(total)
    ELSE totalGzipSizeOfTotal(total + assets[i].size.raw, assets, i + 1)

\* totalGzipSize += normalizedAsset.size.gzip || 0, from asset i on.
RECURSIVE totalGzipSize(_, _, _)
totalGzipSize(total, assets, i) ==
    IF i > Len(assets) THEN total
    ELSE totalGzipSize(total + assets[i].size.gzip, assets, i + 1)

newNormalizedChunk(c) ==
    LET id == String(c.id) IN
    [ id |-> id,
      name |-> IF c.names # <<>> /\ Len(c.names[1]) > 0
               THEN c.names[1][1] ELSE id,
      size |-> [raw |-> c.size, gzip |-> approximateGzipSize(c.size)],
      modules |-> IF c.modules # <<>> THEN mapModuleId(c.modules[1])
                  ELSE <<>> ]

\* "Process Chunks": the normalized chunks.
normalizeChunks(raw) ==
    IF raw.chunks # <<>>
    THEN [i \in 1..Len(raw.chunks[1]) |-> newNormalizedChunk(raw.chunks[1][i])]
    ELSE <<>>

\* chunk.modules.find(moduleId => moduleMap.has(moduleId)): <<>> when no
\* module of the chunk is in the map.
RECURSIVE findFirstModule(_, _, _)
findFirstModule(moduleIds, moduleMap, i) ==
    IF i > Len(moduleIds) THEN <<>>
    ELSE IF moduleIds[i] \in DOMAIN moduleMap THEN <<moduleIds[i]>>
    ELSE findFirstModule(moduleIds, moduleMap, i + 1)

\* "Determine Entrypoints": normalizedChunks.forEach(chunk => ...), from
\* chunk i on.  An id that is the empty string is falsy and is not pushed.
RECURSIVE determineEntrypoints(_, _, _, _)
determineEntrypoints(entrypoints, chunks, moduleMap, i) ==
    IF i > Len(chunks) THEN entrypoints
    ELSE LET chunk == chunks[i]
             firstModuleInChunk == findFirstModule(chunk.modules, moduleMap, 1)
             next == IF /\ chunk.name # <<>>
                        /\ Len(chunk.modules) > 0
                        /\ firstModuleInChunk # <<>>
                        /\ firstModuleInChunk[1] # <<>>
                     THEN Append(entrypoints, firstModuleInChunk[1])
                     ELSE entrypoints
         IN  determineEntrypoints(next, chunks, moduleMap, i + 1)

\* normalizeWebpackStats(rawStats), with now the value of Date.now().
normalizeWebpackStats(raw, now) ==
    [ timestamp |-> now,
      totalSize |->
          [ raw |-> totalRawSize(0, IF raw.assets # <<>> THEN raw.assets[1]
                                    ELSE <<>>, 1),
            gzip |-> totalGzipSize(0, normalizeAssets(raw), 1) ],
      totalTime |-> raw.time,
      modules |-> normalizeModules(raw),
      assets |-> normalizeAssets(raw),
      chunks |-> normalizeChunks(raw),
      entrypoints |->
          determineEntrypoints(<<>>, normalizeChunks(raw), moduleMapOf(raw), 1) ]

-----------------------------------------------------------------------------
(* GraphVisualization.tsx, TreemapVisualization.tsx: filteredModules.      *)

\* activeTypes[module.type], an absent key being undefined (falsy)
isActive(types, type) == type \in DOMAIN types /\ types[type]

\* modulePasses without toLowerCase on the module's name and path.
modulePassesCaseSensitive(module, lowerSearchTerm, types) ==
    /\ isActive(types, module.type)
    /\ \/ includes(module.name, lowerSearchTerm)
       \/ includes(module.path, lowerSearchTerm)

\* The predicate given to stats.modules.filter
modulePasses(module, lowerSearchTerm, types) ==
    /\ isActive(types, module.type)
    /\ \/ includes(toLowerCase(module.name), lowerSearchTerm)
       \/ includes(toLowerCase(module.path), lowerSearchTerm)

\* filteredModules with a predicate that also rejects the first module of
\* the list it is given.
filteredModulesAfterFirst(st, term, types) ==
    IF st = <<>> THEN <<>>
    ELSE LET lowerSearchTerm == toLowerCase(term)
             passing ==
                 SelectSeq(st[1].modules,
                           LAMBDA module : modulePasses(module, lowerSearchTerm, types))
         IN  IF st[1].modules # <<>>
                 /\ modulePasses(st[1].modules[1], lowerSearchTerm, types)
             THEN Tail(passing) ELSE passing

filteredModules(st, term, types) ==
    IF st = <<>> THEN <<>>
    ELSE LET lowerSearchTerm == toLowerCase(term)
         IN  SelectSeq(st[1].modules,
                       LAMBDA module : modulePasses(module, lowerSearchTerm, types))

-----------------------------------------------------------------------------
(* TreemapVisualization.tsx: the hierarchy of the treemap.  The tree of    *)
(* TreemapNodeData is a sequence of nodes, the root first; `children`      *)
(* holds positions in it.                                                  *)

rootData ==
    [ name |-> <<"r", "o", "o", "t">>, path |-> <<>>, children |-> <<>>, type |-> "folder",
      value |-> 0, data |-> <<>>, size |-> <<>> ]

\* currentParent.children.find(c => c.name === part), from child k on:
\* <<>> when no child has the name.
RECURSIVE findChild(_, _, _, _)
findChild(nodes, parent, part, k) ==
    IF k > Len(nodes[parent].children) THEN <<>>
    ELSE IF nodes[nodes[parent].children[k]].name = part
         THEN <<nodes[parent].children[k]>>
         ELSE findChild(nodes, parent, part, k + 1)

\* The node created for segment i of a module's path.
newChild(part, fullPath, isLast, module) ==
    [ name |-> part, path |-> fullPath, children |-> <<>>, value |-> 0,
      type |-> IF isLast THEN module.type ELSE "folder",
      data |-> <<>>, size |-> <<>> ]

\* for (let i = 0; i < pathParts.length; i++) { ... }, from segment i on:
\* the tree and the node the walk ends at.
RECURSIVE walkPath(_, _, _, _, _)
walkPath(nodes, currentParent, pathParts, i, module) ==
    IF i > Len(pathParts)
    THEN [nodes |-> nodes, currentParent |-> currentParent]
    ELSE LET part == pathParts[i]
             fullPath == join(SubSeq(pathParts, 1, i))
             existingChild == findChild(nodes, currentParent, part, 1)
         IN  IF existingChild # <<>>
             THEN walkPath(nodes, existingChild[1], pathParts, i + 1, module)
             ELSE LET child == Len(nodes) + 1
                      created == Append(nodes,
                                     newChild(part, fullPath,
                                              i = Len(pathParts), module))
                      pushed == [created EXCEPT
                                    ![currentParent].children = Append(@, child)]
                  IN  walkPath(pushed, child, pathParts, i + 1, module)

\* The body of modules.forEach: walk the path, then give the last node the
\* module's size and the module.
addModule(nodes, module) ==
    LET walked == walkPath(nodes, 1, split(module.path), 1, module)
        leaf == walked.currentParent
    IN  [walked.nodes EXCEPT ![leaf].value = module.size.raw,
                             ![leaf].data = <<module>>,
                             ![leaf].size = <<module.size>>]

\* modules.forEach(module => ...), from module i on.
RECURSIVE addModules(_, _, _)
addModules(nodes, modules, i) ==
    IF i > Len(modules) THEN nodes
    ELSE addModules(addModule(nodes, modules[i]), modules, i + 1)

\* The tree built from the visible modules.
buildTree(modules) == addModules(<<rootData>>, modules, 1)

\* sumValue without the children: the tree as built, never summed.
sumValueOwnOnly(nodes, n) == nodes[n].value

\* d3: node.sum(d => d.value || 0): the node's own value plus the values of
\* its children, computed bottom-up.
RECURSIVE sumValue(_, _)
RECURSIVE sumChildren(_, _, _)
sumValue(nodes, n) == nodes[n].value + sumChildren(nodes, nodes[n].children, 1)
sumChildren(nodes, children, k) ==
    IF k > Len(children) THEN 0
    ELSE sumValue(nodes, children[k]) + sumChildren(nodes, children, k + 1)

\* insertSorted that puts the child before the children it compares equal
\* to.
RECURSIVE insertSortedBeforeEqual(_, _, _)
insertSortedBeforeEqual(nodes, sorted, c) ==
    IF sorted = <<>> THEN <<c>>
    ELSE IF sumValue(nodes, c) - sumValue(nodes, Head(sorted)) >= 0
         THEN <<c>> \o sorted
         ELSE <<Head(sorted)>> \o insertSortedBeforeEqual(nodes, Tail(sorted), c)

\* Insertion of child c in a list ordered by the comparator
\* (a, b) => (b.value || 0) - (a.value || 0): after every child that does
\* not compare greater, so that the sort is stable.
RECURSIVE insertSorted(_, _, _)
insertSorted(nodes, sorted, c) ==
    IF sorted = <<>> THEN <<c>>
    ELSE IF sumValue(nodes, c) - sumValue(nodes, Head(sorted)) > 0
         THEN <<c>> \o sorted
         ELSE <<Head(sorted)>> \o insertSorted(nodes, Tail(sorted), c)

\* d3: node.sort(compare) on the children of one node, from child k on.
RECURSIVE sortChildren(_, _, _, _)
sortChildren(nodes, sorted, children, k) ==
    IF k > Len(children) THEN sorted
    ELSE sortChildren(nodes, insertSorted(nodes, sorted, children[k]),
                      children, k + 1)

\* d3.hierarchy(rootData).sum(...).sort(...): for every node its data, its
\* value and its children in sorted order; node 1 is the root.
hierarchy(nodes) ==
    [ n \in 1..Len(nodes) |->
        [ data |-> nodes[n],
          value |-> sumValue(nodes, n),
          children |-> sortChildren(nodes, <<>>, nodes[n].children, 1) ] ]

\* treemapRoot over every module of the stats, the filter left out.
treemapRootOfAllModules(st, term, types) ==
    hierarchy(buildTree(IF st = <<>> THEN <<>> ELSE st[1].modules))

\* The hierarchy the treemap effect builds from the visible modules.
treemapRoot(st, term, types) ==
    hierarchy(buildTree(filteredModules(st, term, types)))

\* d3: node.descendants(): the node and the nodes below it, breadth first.
RECURSIVE descendants(_, _, _)
descendants(h, queue, visited) ==
    IF queue = <<>> THEN visited
    ELSE descendants(h, Tail(queue) \o h[Head(queue)].children,
                     Append(visited, Head(queue)))

\* Array.prototype.find over nodes: <<>> (undefined) or <<the first node
\* whose data.path is path>>.
RECURSIVE findPath(_, _, _, _)
findPath(h, nodes, path, k) ==
    IF k > Len(nodes) THEN <<>>
    ELSE IF h[nodes[k]].data.path = path THEN <<nodes[k]>>
    ELSE findPath(h, nodes, path, k + 1)

\* currentRootNode with the root for every path.
currentRootNodeAlwaysRoot(h, path) == 1

\* The node the treemap renders for the current path.
currentRootNode(h, path) ==
    IF Len(path) = 0 THEN 1
    ELSE LET found == findPath(h, descendants(h, <<1>>, <<>>), join(path), 1)
         IN  IF found # <<>> THEN found[1] ELSE 1

-----------------------------------------------------------------------------
(* GraphVisualization.tsx: the links of the graph.                         *)

\* new Set(modules.map(m => m.id))
visibleModuleIds(modules) == {modules[i].id : i \in DOMAIN modules}

\* linksOf without the test of the target.
RECURSIVE linksOfAnyTarget(_, _, _)
linksOfAnyTarget(sourceModule, visibleIds, k) ==
    IF k > Len(sourceModule.dependencies) THEN <<>>
    ELSE << [ source |-> sourceModule.id,
              target |-> sourceModule.dependencies[k] ] >>
             \o linksOfAnyTarget(sourceModule, visibleIds, k + 1)

\* sourceModule.dependencies.forEach(...): the links of one module, from
\* its dependency k on.
RECURSIVE linksOf(_, _, _)
linksOf(sourceModule, visibleIds, k) ==
    IF k > Len(sourceModule.dependencies) THEN <<>>
    ELSE (IF sourceModule.dependencies[k] \in visibleIds
          THEN << [ source |-> sourceModule.id,
                    target |-> sourceModule.dependencies[k] ] >>
          ELSE <<>>)
             \o linksOf(sourceModule, visibleIds, k + 1)

\* modules.forEach(...): the links of the graph, from module i on.
RECURSIVE links(_, _)
links(modules, i) ==
    IF i > Len(modules) THEN <<>>
    ELSE linksOf(modules[i], visibleModuleIds(modules), 1) \o links(modules, i + 1)

-----------------------------------------------------------------------------
(* types.ts: the raw stats files the model loads.                          *)

Sizes == {5 * k : k \in 0..MaxSize}

\* WebpackModule (its `chunks` and `modules` fields are never read).
RawModule(id, name, size, reasons) ==
    [id |-> id, name |-> name, size |-> size, reasons |-> reasons]

\* One entry of WebpackModule.reasons.
RawReason(moduleIdentifier) ==
    [moduleIdentifier |-> moduleIdentifier, type |-> "harmony import"]

\* WebpackAsset
RawAsset(name, size, chunks) == [name |-> name, size |-> size, chunks |-> chunks]

\* WebpackChunk
RawChunk(id, names, size, modules) ==
    [id |-> id, names |-> names, size |-> size, modules |-> modules]

\* WebpackStats
RawStats(time, assets, modules, chunks) ==
    [time |-> time, assets |-> assets, modules |-> modules, chunks |-> chunks]

\* Module ids of the dependency files: the number 1 and the string "1" are
\* one id once coerced.
DependencyIds == {NumberId(1), StringId(<<"1">>), StringId(<<"a">>)}

\* What a reason may name: a module of the file, or one outside it.
DependencyTargets == {StringId(<<"1">>), StringId(<<"a">>), StringId(<<"x">>)}

\* The reasons of module i of a file: the entries of rs placed at i, in
\* order; a module without any has an empty list, or no list when bare.
ReasonsAt(rs, i, bare) ==
    LET mine == SelectSeq(rs, LAMBDA r : r[1] = i)
    IN  IF mine = <<>> /\ bare THEN <<>>
        ELSE << [j \in 1..Len(mine) |-> RawReason(mine[j][2])] >>

DependencyFile(ids, rs, bare) ==
    RawStats(<<>>, <<>>,
             << [i \in 1..Len(ids) |->
                    RawModule(ids[i], <<"s", "r", "c", "/">> \o String(ids[i]) \o <<".", "j", "s">>, 5,
                              ReasonsAt(rs, i, bare))] >>,
             <<>>)

\* Files that differ in their modules' ids and reasons.
IsDependencyFile(raw) ==
    \E n \in 0..MaxModules : \E ids \in [1..n -> DependencyIds] :
        \E k \in 0..MaxReasons :
            \E rs \in [1..k -> (1..n) \X DependencyTargets] :
                \E bare \in BOOLEAN : raw = DependencyFile(ids, rs, bare)

\* The ids of the modules of a file of n modules: a string, a number, the
\* string of that number's digits, then further numbers.
OrderIds(n) ==
    [i \in 1..n |-> IF i = 1 THEN StringId(<<"a">>)
                    ELSE IF i = 2 THEN NumberId(1)
                    ELSE IF i = 3 THEN StringId(<<"1">>)
                    ELSE NumberId(i)]

\* Files that differ in the places of their reasons, which name a module
\* before or after their own, or none of the file.
IsOrderFile(raw) ==
    \E n \in 0..MaxModules : \E k \in 0..MaxReasons :
        \E rs \in [1..k -> (1..n) \X (Range(OrderIds(n)) \cup {StringId(<<"x">>)})] :
            raw = DependencyFile(OrderIds(n), rs, FALSE)

SampleModules ==
    << RawModule(StringId(<<"a">>), <<"s", "r", "c", "/", "a", ".", "j", "s">>, 10, <<>>),
       RawModule(StringId(<<"b">>), <<"s", "r", "c", "/", "b", ".", "c", "s", "s">>, 5, <<>>) >>

SampleChunks ==
    << RawChunk(StringId(<<"m", "a", "i", "n">>), << <<<<"m", "a", "i", "n">>>> >>, 15,
                << <<[id |-> StringId(<<"a">>)]>> >>) >>

AssetNames == {<<"m", "a", "i", "n", ".", "j", "s">>, <<"s", ".", "c", "s", "s">>}

RawAssets == { RawAsset(n, s, <<>>) : n \in AssetNames, s \in Sizes }

\* Files that differ in their assets; the modules and chunks have sizes too.
IsAssetFile(raw) ==
    \/ raw = RawStats(<<>>, <<>>, <<SampleModules>>, <<SampleChunks>>)
    \/ \E n \in 0..MaxAssets : \E as \in [1..n -> RawAssets] :
           raw = RawStats(<<>>, <<as>>, <<SampleModules>>, <<SampleChunks>>)

ChunkModuleLists ==
    { <<>>,
      << <<>> >>,
      << <<[id |-> StringId(<<"a">>)]>> >>,
      << <<[id |-> StringId(<<"x">>)], [id |-> StringId(<<"b">>)]>> >> }

RawChunks ==
    { RawChunk(id, names, 15, ms) :
          id \in {StringId(<<"c">>), NumberId(0)},
          names \in {<<>>, << <<>> >>, << <<<<"m", "a", "i", "n">>>> >>},
          ms \in ChunkModuleLists }

\* Files that differ in their chunks.
IsChunkFile(raw) ==
    \E n \in 0..MaxChunks : \E cs \in [1..n -> RawChunks] :
        raw = RawStats(<<5200>>, <<>>, <<SampleModules>>, <<cs>>)

TreePaths == {<<"a">>, <<"a", "/", "b">>, <<"a", "/", "b", "/", "c", ".", "j", "s">>, <<"d", ".", "c", "s", "s">>}

TreeModules ==
    { RawModule(StringId(p), p, s, <<>>) : p \in TreePaths, s \in Sizes \ {0} }

\* Files that differ in their modules' paths and sizes.
IsTreeFile(raw) ==
    \E n \in 0..MaxModules : \E ms \in [1..n -> TreeModules] :
        raw = RawStats(<<>>, <<>>, <<ms>>, <<>>)

\* A JSON object with none of modules, assets and chunks.
NotAStatsFile == RawStats(<<>>, <<>>, <<>>, <<>>)

\* The JSON text `null`.
NullStats == [json |-> "null"]

\* Files in which each of assets, modules and chunks is absent or empty.
IsEmptyFile(raw) ==
    \E as \in {<<>>, << <<>> >>} : \E ms \in {<<>>, << <<>> >>} :
        \E cs \in {<<>>, << <<>> >>} : raw = RawStats(<<>>, as, ms, cs)

\* The value of a field that a record of the file does not have; no string
\* is equal to it, its one element not being a character.
undefined == <<"undefined">>

MalformedModules == SampleModules \o << RawModule(StringId(<<"c">>), undefined, 5, <<>>) >>

\* Files in which a module or an asset has no name.
IsMalformedFile(raw) ==
    \/ \E n \in 1..MaxModules : \E ms \in [1..n -> Range(MalformedModules)] :
           raw = RawStats(<<>>, <<>>, <<ms>>, <<>>)
    \/ raw = RawStats(<<>>, << <<RawAsset(undefined, 5, <<>>)>> >>, <<SampleModules>>, <<>>)

\* Files of two modules with different ids, whose names may be the same.
IsSharedPathFile(raw) ==
    \E names \in [1..2 -> {<<"d", ".", "c", "s", "s">>, <<"a", "/", "b">>}] :
        raw = RawStats(<<>>, <<>>,
                       << << RawModule(StringId(<<"1">>), names[1], 5, <<>>),
                             RawModule(StringId(<<"2">>), names[2], 10, <<>>) >> >>,
                       <<>>)

\* ingestion.ts: the mock stats (the `chunks` of its modules are never read).
mockWebpackStats ==
    RawStats(
        <<5200>>,
        << << RawAsset(<<"m", "a", "i", "n", ".", "j", "s">>, 1200000, << <<StringId(<<"m", "a", "i", "n">>)>> >>),
              RawAsset(<<"v", "e", "n", "d", "o", "r", "s", ".", "j", "s">>, 800000, << <<StringId(<<"v", "e", "n", "d", "o", "r", "s">>)>> >>),
              RawAsset(<<"s", "t", "y", "l", "e", ".", "c", "s", "s">>, 150000, << <<StringId(<<"m", "a", "i", "n">>)>> >>),
              RawAsset(<<"l", "o", "g", "o", ".", "p", "n", "g">>, 75000, << <<>> >>),
              RawAsset(<<"a", "p", "p", ".", "j", "s", ".", "m", "a", "p">>, 300000, << <<StringId(<<"m", "a", "i", "n">>)>> >>) >> >>,
        << << RawModule(StringId(<<".", "/", "s", "r", "c", "/", "i", "n", "d", "e", "x", ".", "j", "s">>), <<".", "/", "s", "r", "c", "/", "i", "n", "d", "e", "x", ".", "j", "s">>, 50000,
                        << <<RawReason(StringId(<<".", "/", "s", "r", "c", "/", "A", "p", "p", ".", "j", "s">>))>> >>),
              RawModule(StringId(<<".", "/", "s", "r", "c", "/", "A", "p", "p", ".", "j", "s">>), <<".", "/", "s", "r", "c", "/", "A", "p", "p", ".", "j", "s">>, 80000,
                        << <<RawReason(StringId(<<".", "/", "s", "r", "c", "/", "c", "o", "m", "p", "o", "n", "e", "n", "t", "s", "/", "B", "u", "t", "t", "o", "n", ".", "j", "s">>)),
                             RawReason(StringId(<<".", "/", "n", "o", "d", "e", "_", "m", "o", "d", "u", "l", "e", "s", "/", "r", "e", "a", "c", "t", "/", "i", "n", "d", "e", "x", ".", "j", "s">>))>> >>),
              RawModule(StringId(<<".", "/", "s", "r", "c", "/", "c", "o", "m", "p", "o", "n", "e", "n", "t", "s", "/", "B", "u", "t", "t", "o", "n", ".", "j", "s">>),
                        <<".", "/", "s", "r", "c", "/", "c", "o", "m", "p", "o", "n", "e", "n", "t", "s", "/", "B", "u", "t", "t", "o", "n", ".", "j", "s">>, 15000,
                        << <<RawReason(StringId(<<".", "/", "s", "r", "c", "/", "A", "p", "p", ".", "j", "s">>))>> >>),
              RawModule(StringId(<<".", "/", "n", "o", "d", "e", "_", "m", "o", "d", "u", "l", "e", "s", "/", "r", "e", "a", "c", "t", "/", "i", "n", "d", "e", "x", ".", "j", "s">>),
                        <<".", "/", "n", "o", "d", "e", "_", "m", "o", "d", "u", "l", "e", "s", "/", "r", "e", "a", "c", "t", "/", "i", "n", "d", "e", "x", ".", "j", "s">>, 180000,
                        << <<RawReason(StringId(<<".", "/", "s", "r", "c", "/", "A", "p", "p", ".", "j", "s">>))>> >>),
              RawModule(StringId(<<".", "/", "n", "o", "d", "e", "_", "m", "o", "d", "u", "l", "e", "s", "/", "l", "o", "d", "a", "s", "h", "/", "i", "n", "d", "e", "x", ".", "j", "s">>),
                        <<".", "/", "n", "o", "d", "e", "_", "m", "o", "d", "u", "l", "e", "s", "/", "l", "o", "d", "a", "s", "h", "/", "i", "n", "d", "e", "x", ".", "j", "s">>, 250000,
                        << <<RawReason(StringId(<<".", "/", "s", "r", "c", "/", "u", "t", "i", "l", "s", "/", "d", "a", "t", "a", ".", "j", "s">>))>> >>),
              RawModule(StringId(<<".", "/", "s", "r", "c", "/", "u", "t", "i", "l", "s", "/", "d", "a", "t", "a", ".", "j", "s">>), <<".", "/", "s", "r", "c", "/", "u", "t", "i", "l", "s", "/", "d", "a", "t", "a", ".", "j", "s">>,
                        10000, << <<RawReason(StringId(<<".", "/", "s", "r", "c", "/", "A", "p", "p", ".", "j", "s">>))>> >>),
              RawModule(StringId(<<".", "/", "s", "r", "c", "/", "s", "t", "y", "l", "e", "s", "/", "m", "a", "i", "n", ".", "c", "s", "s">>),
                        <<".", "/", "s", "r", "c", "/", "s", "t", "y", "l", "e", "s", "/", "m", "a", "i", "n", ".", "c", "s", "s">>, 70000, << <<>> >>) >> >>,
        << << RawChunk(StringId(<<"m", "a", "i", "n">>), << <<<<"m", "a", "i", "n">>>> >>, 1350000,
                       << << [id |-> StringId(<<".", "/", "s", "r", "c", "/", "i", "n", "d", "e", "x", ".", "j", "s">>)],
                             [id |-> StringId(<<".", "/", "s", "r", "c", "/", "A", "p", "p", ".", "j", "s">>)],
                             [id |-> StringId(<<".", "/", "s", "r", "c", "/", "c", "o", "m", "p", "o", "n", "e", "n", "t", "s", "/", "B", "u", "t", "t", "o", "n", ".", "j", "s">>)],
                             [id |-> StringId(<<".", "/", "s", "r", "c", "/", "u", "t", "i", "l", "s", "/", "d", "a", "t", "a", ".", "j", "s">>)],
                             [id |-> StringId(<<".", "/", "s", "r", "c", "/", "s", "t", "y", "l", "e", "s", "/", "m", "a", "i", "n", ".", "c", "s", "s">>)] >> >>),
              RawChunk(StringId(<<"v", "e", "n", "d", "o", "r", "s">>), << <<<<"v", "e", "n", "d", "o", "r", "s">>>> >>, 430000,
                       << << [id |-> StringId(<<".", "/", "n", "o", "d", "e", "_", "m", "o", "d", "u", "l", "e", "s", "/", "r", "e", "a", "c", "t", "/", "i", "n", "d", "e", "x", ".", "j", "s">>)],
                             [id |-> StringId(<<".", "/", "n", "o", "d", "e", "_", "m", "o", "d", "u", "l", "e", "s", "/", "l", "o", "d", "a", "s", "h", "/", "i", "n", "d", "e", "x", ".", "j", "s">>)]
                          >> >>) >> >>)

ViewPaths == {<<"a", "/", "B", ".", "j", "s">>, <<"b", ".", "c", "s", "s">>, <<"c", ".", "h", "t", "m", "l">>, <<"A">>}

ViewModules == { RawModule(StringId(p), p, 5, <<>>) : p \in ViewPaths }

\* Files that differ in their modules' names and types.
IsViewFile(raw) ==
    \E n \in 0..MaxViewModules : \E ms \in [1..n -> ViewModules] :
        raw = RawStats(<<>>, <<>>, <<ms>>, <<>>)

GraphModules ==
    << RawModule(StringId(<<"a", "/", "B", ".", "j", "s">>), <<"a", "/", "B", ".", "j", "s">>, 5, <<>>),
       RawModule(StringId(<<"b", ".", "c", "s", "s">>), <<"b", ".", "c", "s", "s">>, 5, <<>>),
       RawModule(StringId(<<"A">>), <<"A">>, 5, <<>>) >>

\* Files that differ in the reasons of their modules, which differ in
\* their names and types.
IsGraphFile(raw) ==
    \E k \in 0..MaxGraphReasons :
        \E rs \in [1..k -> (DOMAIN GraphModules) \X {m.id : m \in Range(GraphModules)}] :
            raw = RawStats(<<>>, <<>>,
                           << [i \in DOMAIN GraphModules |->
                                  [GraphModules[i] EXCEPT
                                      !.reasons = ReasonsAt(rs, i, FALSE)]] >>,
                           <<>>)

\* The stats files the user may pick in the open dialog: two that load and
\* one that is rejected.
HostFiles ==
    { [ path |-> <<"/", "a">>,
        content |-> RawStats(<<>>, <<>>, << <<SampleModules[1]>> >>, <<>>) ],
      [ path |-> <<"/", "b">>,
        content |-> RawStats(<<>>, <<>>, << <<SampleModules[2]>> >>, <<>>) ],
      [ path |-> <<"/", "x">>, content |-> NotAStatsFile ] }

\* What the user may type in the file path input.
TypedPaths == {<<>>, <<"/", "a">>}

\* The files the treemap shows when it is drilled into.
IsDrillFile(raw) ==
    \E n \in 0..MaxDrillModules : \E ms \in [1..n -> TreeModules] :
        raw = RawStats(<<>>, <<>>, <<ms>>, <<>>)

\* Values of currentPath: paths of nodes of the tree files, and paths of
\* no node.
DrillPaths ==
    { <<>>, <<<<"a">>>>, <<<<"a">>, <<"b">>>>, <<<<"a">>, <<"b">>, <<"c", ".", "j", "s">>>>,
      <<<<"d", ".", "c", "s", "s">>>>, <<<<"z">>>>, <<<<"a">>, <<"z">>>>, << <<>> >> }

\* What the user may type in the search box.
SearchTerms == {<<>>, <<"B">>, <<"A", "/">>}

IsRawInput(raw) ==
    \/ IsDependencyFile(raw)
    \/ IsAssetFile(raw)
    \/ IsChunkFile(raw)
    \/ IsTreeFile(raw)
    \/ IsMalformedFile(raw)
    \/ IsSharedPathFile(raw)
    \/ IsEmptyFile(raw)
    \/ raw = NullStats
    \/ raw = mockWebpackStats

\* Values of Date.now().
Clock == {1, 2}

-----------------------------------------------------------------------------
(* App.tsx: the webview's state and its handlers.                          *)

\* useState for activeTypes
InitialActiveTypes ==
    [t \in {"js", "css", "image", "font", "json", "wasm", "unknown"} |-> TRUE]

\* FilterControls: the types that have a checkbox.
moduleTypes == {"js", "css", "image", "font", "json", "wasm", "unknown"}

\* looksLikeStats that wants one of assets, modules and chunks to have an
\* entry.
looksLikeStatsWithEntries(raw) ==
    /\ raw # NullStats
    /\ \/ raw.assets # <<>> /\ raw.assets[1] # <<>>
       \/ raw.modules # <<>> /\ raw.modules[1] # <<>>
       \/ raw.chunks # <<>> /\ raw.chunks[1] # <<>>

\* ingestion.ts, loadWebpackStats: the file is accepted when it is not null
\* and has one of assets, modules and chunks.
looksLikeStats(raw) ==
    /\ raw # NullStats
    /\ raw.assets # <<>> \/ raw.modules # <<>> \/ raw.chunks # <<>>

\* processing.ts, normalizeWebpackStats: m.name.split('/') in the first
\* pass, and name.toLowerCase() in getTypeFromName for an asset, throw a
\* TypeError when the name is undefined.
normalizeThrows(raw) ==
    \/ /\ raw.modules # <<>>
       /\ \E i \in DOMAIN raw.modules[1] : raw.modules[1][i].name = undefined
    \/ /\ raw.assets # <<>>
       /\ \E i \in DOMAIN raw.assets[1] : raw.assets[1][i].name = undefined

\* The message of the error that loadAndProcessStatsFile throws.
errorMessage(raw) ==
    IF ~looksLikeStats(raw)
    THEN "The selected file does not appear to be a valid Webpack stats.json."
    ELSE "TypeError: cannot read a property of undefined"

\* postedByLoad with the ERROR of a failed load followed by a
\* FILE_PATH_UPDATE.
postedByLoadWithPath(path, raw, now) ==
    IF ~looksLikeStats(raw) \/ normalizeThrows(raw)
    THEN << [ type |-> "ERROR",
              payload |-> [message |-> "Failed to load or process stats file: "
                                           \o errorMessage(raw)] ],
            [ type |-> "FILE_PATH_UPDATE", payload |-> [filePath |-> path] ] >>
    ELSE << [ type |-> "BUILD_STATS_UPDATE",
              payload |-> normalizeWebpackStats(raw, now) ],
            [ type |-> "FILE_PATH_UPDATE", payload |-> [filePath |-> path] ] >>

\* extension.ts, promptAndLoadStatsFile, once a file is selected: the
\* messages it gives to postMessageToWebview, in order.
postedByLoad(path, raw, now) ==
    IF ~looksLikeStats(raw) \/ normalizeThrows(raw)
    THEN << [ type |-> "ERROR",
              payload |-> [message |-> "Failed to load or process stats file: "
                                           \o errorMessage(raw)] ] >>
    ELSE << [ type |-> "BUILD_STATS_UPDATE",
              payload |-> normalizeWebpackStats(raw, now) ],
            [ type |-> "FILE_PATH_UPDATE", payload |-> [filePath |-> path] ] >>

\* The state of App that its handlers write, with the treemap's path.
app ==
    [ stats |-> stats, filePath |-> filePath, isLoading |-> isLoading,
      error |-> error, currentPath |-> currentPath ]

\* renderVisualizationContent: a visualization is mounted when App is not
\* loading, has no error and has stats.
visualizationShown(a) == ~a.isLoading /\ a.error = <<>> /\ a.stats # <<>>

\* The treemap keeps its currentPath while it stays mounted, and starts
\* from useState([]) when it is mounted again.
rendered(before, after) ==
    [after EXCEPT !.currentPath =
        IF visualizationShown(before) /\ visualizationShown(after)
        THEN before.currentPath ELSE <<>>]

handleVsCodeMessage(a, message) ==
    LET stopped == [a EXCEPT !.isLoading = FALSE]
    IN  rendered(a,
            CASE message.type = "BUILD_STATS_UPDATE" ->
                     [stopped EXCEPT !.stats = <<message.payload>>, !.error = <<>>]
              [] message.type = "FILE_PATH_UPDATE" ->
                     [stopped EXCEPT !.filePath = message.payload.filePath]
              [] message.type = "ERROR" ->
                     [stopped EXCEPT !.error = <<message.payload.message>>,
                                     !.stats = <<>>]
              [] OTHER -> stopped)

\* The messages of a list, handled one after the other.
RECURSIVE handleMessages(_, _, _)
handleMessages(a, messages, i) ==
    IF i > Len(messages) THEN a
    ELSE handleMessages(handleVsCodeMessage(a, messages[i]), messages, i + 1)

\* The state of App becomes a.
setApp(a) ==
    /\ stats' = a.stats
    /\ filePath' = a.filePath
    /\ isLoading' = a.isLoading
    /\ error' = a.error
    /\ currentPath' = a.currentPath

\* The path of the file in rawStats.
StatsFilePath == <<"/", "s", ".", "j", "s", "o", "n">>

\* A load with nothing else in flight: the user selects the file of
\* rawStats in the dialog, loadAndProcessStatsFile reads and normalizes it,
\* and the webview handles the messages posted.
LoadStats ==
    /\ currentPanel # <<>>
    /\ \E now \in Clock :
           setApp(handleMessages(app, postedByLoad(StatsFilePath, rawStats, now), 1))
    /\ UNCHANGED <<rawStats, searchTerm, activeTypes, hostVars>>

\* setSearchTerm(term)
handleSearchChange(term) ==
    /\ searchTerm' = term
    /\ UNCHANGED <<rawStats, stats, activeTypes, filePath, isLoading, error,
                   currentPath, hostVars>>

\* setActiveTypes(prev => ({ ...prev, [type]: !prev[type] }))
toggled(prev, type) ==
    [t \in (DOMAIN prev) \cup {type} |->
        IF t = type THEN ~isActive(prev, type) ELSE prev[t]]

handleToggleType(type) ==
    /\ activeTypes' = toggled(activeTypes, type)
    /\ UNCHANGED <<rawStats, stats, searchTerm, filePath, isLoading, error,
                   currentPath, hostVars>>

\* setFilePath(path)
handleFilePathChange(path) ==
    /\ currentPanel # <<>>
    /\ filePath' = path
    /\ UNCHANGED <<rawStats, stats, searchTerm, activeTypes, isLoading, error,
                   currentPath, hostVars>>

\* The entries of _disposables that onDidReceiveMessageFromWebview pushed.
callbacks == SelectSeq(disposables, LAMBDA d : d = "callback")

\* The "Load & Visualize" button, disabled while isLoading.  The requests
\* are bounded with the loads they start, one for each callback.
handleLoadStats ==
    /\ currentPanel # <<>>
    /\ ~isLoading
    /\ filePath # <<>> =>
           Len(loads) + (Len(toHost) + 1) * Len(callbacks) <= MaxLoads
    /\ IF filePath # <<>>
       THEN /\ setApp(rendered(app, [app EXCEPT !.isLoading = TRUE,
                                                !.error = <<>>,
                                                !.stats = <<>>]))
            /\ toHost' = Append(toHost,
                                [ type |-> "REQUEST_LOAD_STATS_FILE",
                                  payload |-> [filePath |-> filePath] ])
       ELSE /\ setApp(rendered(app, [app EXCEPT !.error =
                          <<"Please provide a stats file path.">>]))
            /\ UNCHANGED toHost
    /\ UNCHANGED <<rawStats, searchTerm, activeTypes, currentPanel, panels,
                   disposables, loads, toWebview>>

\* TreemapVisualization.tsx: setCurrentPath(currentPath.slice(0, index + 1))
handleBreadcrumbClick(index) ==
    /\ visualizationShown(app)
    /\ currentPath' = SubSeq(currentPath, 1, index + 1)
    /\ UNCHANGED <<rawStats, stats, searchTerm, activeTypes, filePath,
                   isLoading, error, hostVars>>

\* TreemapVisualization.tsx, the "Root" breadcrumb: setCurrentPath([])
handleRootClick ==
    /\ visualizationShown(app)
    /\ currentPath' = <<>>
    /\ UNCHANGED <<rawStats, stats, searchTerm, activeTypes, filePath,
                   isLoading, error, hostVars>>

\* d3: node.leaves(): the nodes at or below node that have no children.
leaves(h, node) ==
    SelectSeq(descendants(h, <<node>>, <<>>), LAMBDA n : h[n].children = <<>>)

\* handleCellClick without the test for children: every cell drills down.
handleCellClickAnyCell(n) ==
    /\ visualizationShown(app)
    /\ LET h == treemapRoot(stats, searchTerm, activeTypes)
       IN  /\ n \in Range(leaves(h, currentRootNode(h, currentPath)))
           /\ currentPath' = split(h[n].data.path)
    /\ UNCHANGED <<rawStats, stats, searchTerm, activeTypes, filePath,
                   isLoading, error, hostVars>>

\* TreemapVisualization.tsx, renderTreemap: the click on the cell of node n,
\* one of the leaves below the current root node:
\* if (d.data.children && d.data.children.length > 0)
\*     setCurrentPath(d.data.path.split('/'))
handleCellClick(n) ==
    /\ visualizationShown(app)
    /\ LET h == treemapRoot(stats, searchTerm, activeTypes)
       IN  /\ n \in Range(leaves(h, currentRootNode(h, currentPath)))
           /\ currentPath' = IF Len(h[n].data.children) > 0
                             THEN split(h[n].data.path)
                             ELSE currentPath
    /\ UNCHANGED <<rawStats, stats, searchTerm, activeTypes, filePath,
                   isLoading, error, hostVars>>

\* TreemapVisualization.tsx, the breadcrumb bar: the Root button, and one
\* button for each segment of currentPath.
handleBreadcrumb ==
    \E index \in 0..Len(currentPath) :
        IF index = 0 THEN handleRootClick ELSE handleBreadcrumbClick(index - 1)

\* The App component as it is mounted.
AppMounted ==
    /\ stats = <<>>
    /\ searchTerm = <<>>
    /\ activeTypes = InitialActiveTypes
    /\ filePath = <<>>
    /\ isLoading = FALSE
    /\ error = <<>>
    /\ currentPath = <<>>

-----------------------------------------------------------------------------
(* extension.ts, webviewManager.ts: the extension host.                    *)

\* The panels that are open in the editor.
livePanels == {p \in DOMAIN panels : panels[p] = "open"}

\* The host with its panel open, its webview mounted and WEBVIEW_READY
\* handled, and no load in flight.
PanelOpen ==
    /\ currentPanel = <<1>>
    /\ panels = <<"open">>
    /\ disposables = <<"onDidReceiveMessage", "onDidDispose", "callback">>
    /\ loads = <<>>
    /\ toHost = <<>>
    /\ toWebview = <<>>

\* The host after activate().
Activated ==
    /\ currentPanel = <<>>
    /\ panels = <<>>
    /\ disposables = <<>>
    /\ loads = <<>>
    /\ toHost = <<>>
    /\ toWebview = <<>>

\* webviewManager.ts, createOrShowWebview without the early return for an
\* existing panel.
createOrShowWebviewAlways ==
    /\ Len(panels) < MaxPanels
    /\ panels' = Append(panels, "open")
    /\ currentPanel' = <<Len(panels) + 1>>
    /\ disposables' = disposables \o <<"onDidReceiveMessage", "onDidDispose", "callback">>
    /\ toHost' = << [type |-> "WEBVIEW_READY"] >>
    /\ toWebview' = <<>>
    /\ stats' = <<>>
    /\ searchTerm' = <<>>
    /\ activeTypes' = InitialActiveTypes
    /\ filePath' = <<>>
    /\ isLoading' = FALSE
    /\ error' = <<>>
    /\ currentPath' = <<>>

\* webviewManager.ts, createOrShowWebview, followed in the command's handler
\* by onDidReceiveMessageFromWebview(callback).  A new panel loads the
\* webview, whose App is mounted and posts WEBVIEW_READY.
createOrShowWebview ==
    IF currentPanel # <<>>
    THEN /\ disposables' = Append(disposables, "callback")
         /\ UNCHANGED <<appVars, currentPanel, panels, toHost, toWebview>>
    ELSE /\ Len(panels) < MaxPanels
         /\ panels' = Append(panels, "open")
         /\ currentPanel' = <<Len(panels) + 1>>
         /\ disposables' = disposables \o <<"onDidReceiveMessage", "onDidDispose", "callback">>
         /\ toHost' = << [type |-> "WEBVIEW_READY"] >>
         /\ toWebview' = <<>>
         /\ stats' = <<>>
         /\ searchTerm' = <<>>
         /\ activeTypes' = InitialActiveTypes
         /\ filePath' = <<>>
         /\ isLoading' = FALSE
         /\ error' = <<>>
         /\ currentPath' = <<>>

\* extension.ts: the command buildVisualizer.show.  The callbacks are bounded,
\* and with them the loads that the queued messages will start.
ShowCommand ==
    /\ Len(callbacks) < MaxListeners
    /\ Len(loads) + Len(toHost) * (Len(callbacks) + 1) <= MaxLoads
    /\ currentPanel = <<>> => Len(loads) < MaxLoads
    /\ createOrShowWebview
    /\ UNCHANGED <<rawStats, loads>>

\* webviewManager.ts, dispose, called by onDidDispose when the user closes
\* the panel.  The webview is gone with its state and with the messages to
\* and from it; the next panel's App starts from its initial state.
dispose ==
    /\ currentPanel # <<>>
    /\ panels' = [panels EXCEPT ![currentPanel[1]] = "disposed"]
    /\ currentPanel' = <<>>
    /\ disposables' = <<>>
    /\ toHost' = <<>>
    /\ toWebview' = <<>>
    /\ stats' = <<>>
    /\ searchTerm' = <<>>
    /\ activeTypes' = InitialActiveTypes
    /\ filePath' = <<>>
    /\ isLoading' = FALSE
    /\ error' = <<>>
    /\ currentPath' = <<>>
    /\ UNCHANGED <<rawStats, loads>>

\* A call of promptAndLoadStatsFile, waiting in showOpenDialog.
newLoad(message) ==
    [ request |-> message.type, pc |-> "dialog", file |-> <<>>, posted |-> <<>>,
      panelOpen |-> FALSE ]

\* extension.ts, the callback of onDidReceiveMessageFromWebview: whether
\* the message makes it call promptAndLoadStatsFile.
requestsLoad(message) ==
    message.type \in {"WEBVIEW_READY", "REQUEST_LOAD_STATS_FILE"}

\* webviewManager.ts, the listener of webview.onDidReceiveMessage: every
\* callback in _disposables is called with the message, and runs up to its
\* await of showOpenDialog.
receiveFromWebview ==
    /\ toHost # <<>>
    /\ LET message == Head(toHost)
           started == IF requestsLoad(message)
                      THEN [k \in 1..Len(callbacks) |-> newLoad(message)]
                      ELSE <<>>
       IN  /\ Len(loads) + Len(started) <= MaxLoads
           /\ loads' = loads \o started
    /\ toHost' = Tail(toHost)
    /\ UNCHANGED <<rawStats, appVars, currentPanel, panels, disposables, toWebview>>

\* showOpenDialog resolves with the file the user picked.
selectFile(l, file) ==
    /\ loads[l].pc = "dialog"
    /\ loads' = [loads EXCEPT ![l].pc = "reading", ![l].file = <<file>>]
    /\ UNCHANGED <<rawStats, appVars, currentPanel, panels, disposables, toHost,
                   toWebview>>

\* showOpenDialog resolves with undefined: 'No stats file selected.'
cancelDialog(l) ==
    /\ loads[l].pc = "dialog"
    /\ loads' = [loads EXCEPT ![l].pc = "done"]
    /\ UNCHANGED <<rawStats, appVars, currentPanel, panels, disposables, toHost,
                   toWebview>>

\* webviewManager.ts, postMessageToWebview, for the messages of one load:
\* those that are posted, all of them if there is a panel and none if not.
postMessagesToWebview(messages) ==
    IF currentPanel # <<>> THEN messages ELSE <<>>

\* loadAndProcessStatsFile settles, and promptAndLoadStatsFile posts the
\* outcome.
finishLoad(l) ==
    /\ loads[l].pc = "reading"
    /\ \E now \in Clock :
           LET file == loads[l].file[1]
               messages == postMessagesToWebview(
                               postedByLoad(file.path, file.content, now))
           IN  /\ toWebview' = toWebview \o messages
               /\ loads' = [loads EXCEPT
                      ![l].pc = "done",
                      ![l].posted = [k \in 1..Len(messages) |-> messages[k].type],
                      ![l].panelOpen = (currentPanel # <<>>)]
    /\ UNCHANGED <<rawStats, appVars, currentPanel, panels, disposables, toHost>>

\* The webview's message listener.
receiveFromHost ==
    /\ toWebview # <<>>
    /\ setApp(handleVsCodeMessage(app, Head(toWebview)))
    /\ toWebview' = Tail(toWebview)
    /\ UNCHANGED <<rawStats, searchTerm, activeTypes, currentPanel, panels,
                   disposables, loads, toHost>>

-----------------------------------------------------------------------------
(* The specifications.                                                     *)

Init ==
    /\ IsRawInput(rawStats)
    /\ AppMounted
    /\ PanelOpen

Next == LoadStats

\* The loader: every stats file, loaded.
Spec == Init /\ [][Next]_vars

InitOrder ==
    /\ IsOrderFile(rawStats)
    /\ AppMounted
    /\ PanelOpen

\* The loads of files whose reasons point forward and backward in the list.
SpecOrder == InitOrder /\ [][Next]_vars

InitView ==
    /\ IsViewFile(rawStats) \/ IsGraphFile(rawStats)
    /\ AppMounted
    /\ PanelOpen

NextView ==
    \/ LoadStats
    \/ \E term \in SearchTerms : handleSearchChange(term)
    \/ \E type \in moduleTypes : handleToggleType(type)

\* The webview with its filter controls.
SpecView == InitView /\ [][NextView]_vars

InitDrill ==
    /\ IsDrillFile(rawStats)
    /\ stats = <<normalizeWebpackStats(rawStats, 1)>>
    /\ searchTerm = <<>>
    /\ activeTypes = InitialActiveTypes
    /\ filePath = StatsFilePath
    /\ isLoading = FALSE
    /\ error = <<>>
    /\ currentPath \in DrillPaths
    /\ PanelOpen

NextDrill ==
    \/ LoadStats
    \/ \E index \in 0..(Len(currentPath) - 1) : handleBreadcrumbClick(index)
    \/ handleRootClick

\* currentRootNode over the hierarchies of the files, for any currentPath
\* it may be given.
SpecDrill == InitDrill /\ [][NextDrill]_vars

InitHost ==
    /\ rawStats = NotAStatsFile
    /\ AppMounted
    /\ Activated

NextHost ==
    \/ ShowCommand
    \/ dispose
    \/ receiveFromWebview
    \/ \E l \in DOMAIN loads : \E file \in HostFiles : selectFile(l, file)
    \/ \E l \in DOMAIN loads : cancelDialog(l)
    \/ \E l \in DOMAIN loads : finishLoad(l)
    \/ receiveFromHost
    \/ \E path \in TypedPaths : handleFilePathChange(path)
    \/ handleLoadStats

\* The extension host, its panel and the loads it runs for the webview.
SpecHost == InitHost /\ [][NextHost]_vars

\* What the scheduling of the host and of the webview guarantees: a posted
\* message is delivered, a load that reads its file settles, and an open
\* file dialog is answered, by a file or by cancel.  The command, the
\* closing of the panel and the webview's inputs are the user's to make.
FairHost ==
    /\ WF_vars(receiveFromWebview)
    /\ WF_vars(receiveFromHost)
    /\ WF_vars(\E l \in DOMAIN loads : finishLoad(l))
    /\ WF_vars(\E l \in DOMAIN loads :
                   \/ cancelDialog(l)
                   \/ \E file \in HostFiles : selectFile(l, file))

\* The extension host and its webview, with every message delivered, every
\* dialog answered and every load settled.
SpecHostFair == InitHost /\ [][NextHost]_vars /\ FairHost

\* The types whose checkboxes the treemap's files make a difference for.
TreemapTypes == {"js", "css", "unknown"}

InitTreemap ==
    /\ IsDrillFile(rawStats)
    /\ AppMounted
    /\ PanelOpen

NextTreemap ==
    \/ LoadStats
    \/ \E term \in SearchTerms : handleSearchChange(term)
    \/ \E type \in TreemapTypes : handleToggleType(type)
    \/ \E n \in DOMAIN treemapRoot(stats, searchTerm, activeTypes) :
           handleCellClick(n)
    \/ handleBreadcrumb

\* The treemap view from the mounting of the App: loads, filter changes,
\* cell clicks and breadcrumb clicks.
SpecTreemap == InitTreemap /\ [][NextTreemap]_vars

-----------------------------------------------------------------------------
(* Properties of the loader and of the views.                              *)

RECURSIVE SumSeq(_)
SumSeq(s) == IF s = <<>> THEN 0 ELSE Head(s) + SumSeq(Tail(s))

Loaded == stats # <<>>

\* The modules, assets and chunks the webview holds.
Modules == stats[1].modules
Assets == stats[1].assets
Chunks == stats[1].chunks

\* C1: in the output of normalizeWebpackStats the dependency relation is
\* symmetric: for all modules a and b of the normalized collection, b.id is
\* in a.dependencies if and only if a.id is in b.dependents.
DependenciesAreSymmetric ==
    Loaded =>
        \A i, j \in DOMAIN Modules :
            (Modules[j].id \in Range(Modules[i].dependencies))
                <=> (Modules[i].id \in Range(Modules[j].dependents))

\* C2: no normalized module's dependencies or dependents hold the module's
\* own id or an id that no module of the normalized collection has; reasons
\* that name the module itself or an absent id are dropped, and the load
\* succeeds.
NoSelfOrDanglingReference ==
    Loaded =>
        \A i \in DOMAIN Modules :
            \A id \in Range(Modules[i].dependencies)
                          \cup Range(Modules[i].dependents) :
                /\ id # Modules[i].id
                /\ \E j \in DOMAIN Modules : Modules[j].id = id

\* C2's case: a loaded file in which one module has a reason that names the
\* module itself and a reason that names an id outside the file.
SelfAndDanglingReasonsLoaded ==
    /\ Loaded
    /\ rawStats.modules # <<>>
    /\ \E i \in DOMAIN rawStats.modules[1] :
           LET m == rawStats.modules[1][i] IN
           /\ m.reasons # <<>>
           /\ \E r \in Range(m.reasons[1]) :
                  String(r.moduleIdentifier) = String(m.id)
           /\ \E r \in Range(m.reasons[1]) :
                  \A k \in DOMAIN rawStats.modules[1] :
                      String(rawStats.modules[1][k].id)
                          # String(r.moduleIdentifier)

\* C3: module ids are unique within a load: no two records of the
\* normalized collection have the same id, and the id-to-module index
\* refers to every record of the collection.
ModuleIdsAreUnique ==
    Loaded =>
        /\ \A i, j \in DOMAIN Modules : Modules[i].id = Modules[j].id => i = j
        /\ \A i \in DOMAIN Modules :
               \E id \in DOMAIN moduleMapOf(rawStats) :
                   moduleMapOf(rawStats)[id] = i

MockLoaded == rawStats = mockWebpackStats /\ Loaded

\* The module ./src/App.js of the loaded stats.
AppJs == CHOOSE m \in Range(Modules) : m.path = <<".", "/", "s", "r", "c", "/", "A", "p", "p", ".", "j", "s">>

\* C4 as stated: from the mock input, ./src/App.js has exactly the
\* dependencies {./src/components/Button.js, ./node_modules/react/index.js}
\* and exactly the dependents {./src/index.js}.
MockAppJsHasOneDependent ==
    MockLoaded =>
        /\ Range(AppJs.dependencies) =
               {<<".", "/", "s", "r", "c", "/", "c", "o", "m", "p", "o", "n", "e", "n", "t", "s", "/", "B", "u", "t", "t", "o", "n", ".", "j", "s">>, <<".", "/", "n", "o", "d", "e", "_", "m", "o", "d", "u", "l", "e", "s", "/", "r", "e", "a", "c", "t", "/", "i", "n", "d", "e", "x", ".", "j", "s">>}
        /\ Range(AppJs.dependents) = {<<".", "/", "s", "r", "c", "/", "i", "n", "d", "e", "x", ".", "j", "s">>}

\* C4 as amended: from the mock input, ./src/App.js has exactly the
\* dependencies {./src/components/Button.js, ./node_modules/react/index.js}
\* and exactly the dependents {./src/index.js, ./src/components/Button.js,
\* ./node_modules/react/index.js, ./src/utils/data.js}, every module whose
\* reasons name ./src/App.js.
MockAppJsDependenciesAndDependents ==
    MockLoaded =>
        /\ AppJs.dependencies =
               <<<<".", "/", "s", "r", "c", "/", "c", "o", "m", "p", "o", "n", "e", "n", "t", "s", "/", "B", "u", "t", "t", "o", "n", ".", "j", "s">>, <<".", "/", "n", "o", "d", "e", "_", "m", "o", "d", "u", "l", "e", "s", "/", "r", "e", "a", "c", "t", "/", "i", "n", "d", "e", "x", ".", "j", "s">>>>
        /\ AppJs.dependents =
               << <<".", "/", "s", "r", "c", "/", "i", "n", "d", "e", "x", ".", "j", "s">>, <<".", "/", "s", "r", "c", "/", "c", "o", "m", "p", "o", "n", "e", "n", "t", "s", "/", "B", "u", "t", "t", "o", "n", ".", "j", "s">>,
                  <<".", "/", "n", "o", "d", "e", "_", "m", "o", "d", "u", "l", "e", "s", "/", "r", "e", "a", "c", "t", "/", "i", "n", "d", "e", "x", ".", "j", "s">>, <<".", "/", "s", "r", "c", "/", "u", "t", "i", "l", "s", "/", "d", "a", "t", "a", ".", "j", "s">> >>

\* C4's case: the mock input is loaded and holds ./src/App.js.
MockAppJsLoaded ==
    MockLoaded /\ \E m \in Range(Modules) : m.path = <<".", "/", "s", "r", "c", "/", "A", "p", "p", ".", "j", "s">>

\* C5: from the mock input, totalSize.raw is 2,525,000 and there are exactly
\* 7 modules, exactly 2 chunks (main of raw size 1,350,000 and vendors of
\* raw size 430,000) and exactly 5 assets.
MockTotalsAndCounts ==
    MockLoaded =>
        /\ stats[1].totalSize.raw = 2525000
        /\ Len(Modules) = 7
        /\ Len(Chunks) = 2
        /\ Chunks[1].name = <<"m", "a", "i", "n">> /\ Chunks[1].size.raw = 1350000
        /\ Chunks[2].name = <<"v", "e", "n", "d", "o", "r", "s">> /\ Chunks[2].size.raw = 430000
        /\ Len(Assets) = 5

\* C5's case: the mock input is loaded, with its assets and chunks.
MockAssetsAndChunksLoaded == MockLoaded /\ Assets # <<>> /\ Chunks # <<>>

\* C6: totalSize.raw is the sum of size.raw over the normalized assets and
\* totalSize.gzip the sum of their size.gzip, each floor(0.3 * raw); without
\* assets both are 0; module and chunk sizes do not contribute.
TotalSizeIsSumOverAssets ==
    Loaded =>
        /\ stats[1].totalSize.raw =
               SumSeq([i \in DOMAIN Assets |-> Assets[i].size.raw])
        /\ stats[1].totalSize.gzip =
               SumSeq([i \in DOMAIN Assets |-> Assets[i].size.gzip])
        /\ \A i \in DOMAIN Assets :
               /\ 10 * Assets[i].size.gzip <= 3 * Assets[i].size.raw
               /\ 3 * Assets[i].size.raw < 10 * (Assets[i].size.gzip + 1)
        /\ Assets = <<>> =>
               stats[1].totalSize.raw = 0 /\ stats[1].totalSize.gzip = 0

\* C6's case: a loaded file with two assets whose gzip sizes are rounded
\* down, beside modules and chunks that have sizes of their own.
RoundedAssetsBesideModulesLoaded ==
    /\ Loaded
    /\ Len(Assets) >= 2
    /\ \A i \in DOMAIN Assets :
           10 * Assets[i].size.gzip < 3 * Assets[i].size.raw
    /\ \E i \in DOMAIN Modules : Modules[i].size.raw > 0
    /\ \E i \in DOMAIN Chunks : Chunks[i].size.raw > 0

\* The hierarchy of the treemap in the current state.
Tree == treemapRoot(stats, searchTerm, activeTypes)

\* C7: in the hierarchy built from any list of modules (a path may be a
\* prefix of another module's path), every node that has children has a
\* value equal to the sum of its children's values, and every leaf's value
\* is the size.raw of the module it represents.
NodeValueIsSumOfChildren ==
    Loaded =>
        \A n \in DOMAIN Tree :
            /\ Tree[n].children # <<>> =>
                   Tree[n].value =
                       SumSeq([k \in DOMAIN Tree[n].children |->
                                  Tree[Tree[n].children[k]].value])
            /\ (Tree[n].children = <<>> /\ Tree[n].data.data # <<>>) =>
                   Tree[n].value = Tree[n].data.data[1].size.raw

\* The hierarchy built from all the modules of the loaded stats.
FullTree == hierarchy(buildTree(Modules))

\* C8 as stated: from the 7 mock modules the root's value is 655,000 and
\* ./node_modules is a direct child of the root, with value 430,000.
MockNodeModulesIsTopLevel ==
    MockLoaded =>
        /\ FullTree[1].value = 655000
        /\ \E c \in Range(FullTree[1].children) :
               /\ FullTree[c].data.path = <<".", "/", "n", "o", "d", "e", "_", "m", "o", "d", "u", "l", "e", "s">>
               /\ FullTree[c].value = 430000

\* C8 as amended: from the 7 mock modules the root's value is 655,000; the
\* root's only direct child is the node `.` of the leading "./" of every
\* path, and ./node_modules is a direct child of that node, with value
\* 430,000.
MockNodeModulesIsBelowDot ==
    MockLoaded =>
        /\ FullTree[1].value = 655000
        /\ Len(FullTree[1].children) = 1
        /\ LET dot == FullTree[1].children[1] IN
           /\ FullTree[dot].data.path = <<".">>
           /\ \E c \in Range(FullTree[dot].children) :
                  /\ FullTree[c].data.path = <<".", "/", "n", "o", "d", "e", "_", "m", "o", "d", "u", "l", "e", "s">>
                  /\ FullTree[c].value = 430000

\* C8's case: the hierarchy of the loaded mock modules has a node
\* ./node_modules.
MockTreeHasNodeModules ==
    MockLoaded /\ \E n \in DOMAIN FullTree :
                      FullTree[n].data.path = <<".", "/", "n", "o", "d", "e", "_", "m", "o", "d", "u", "l", "e", "s">>

\* s contains t as a substring, letter case ignored.
ContainsIgnoringCase(s, t) ==
    \E i \in 1..(Len(s) - Len(t) + 1) :
        \A k \in 1..Len(t) :
            toLowerCaseChar(s[i + k - 1]) = toLowerCaseChar(t[k])

\* The positions of the modules that pass the filter of the current state.
PassingPositions ==
    { i \in DOMAIN Modules :
        /\ Modules[i].type \in DOMAIN activeTypes
        /\ activeTypes[Modules[i].type] = TRUE
        /\ \/ searchTerm = <<>>
           \/ ContainsIgnoringCase(Modules[i].name, searchTerm)
           \/ ContainsIgnoringCase(Modules[i].path, searchTerm) }

Visible == filteredModules(stats, searchTerm, activeTypes)

\* C9: the visible modules are exactly the modules whose type is active and
\* whose name or path contains the search term, letter case ignored (every
\* module when the term is empty), in the order of the module list, each
\* once and unaltered.
VisibleAreThePassingInOrder ==
    /\ ~Loaded => Visible = <<>>
    /\ Loaded =>
           /\ Len(Visible) = Cardinality(PassingPositions)
           /\ \A k \in DOMAIN Visible :
                  \E i \in PassingPositions :
                      /\ Cardinality({j \in PassingPositions : j <= i}) = k
                      /\ Visible[k] = Modules[i]

\* C9's case: an upper-case search term matches a module whose name and
\* path have it in lower case only, and another module is filtered out.
CaseInsensitiveMatchAndDrop ==
    /\ Loaded
    /\ searchTerm = <<"B">>
    /\ \E k \in DOMAIN Visible :
           ~includes(Visible[k].name, searchTerm)
               /\ ~includes(Visible[k].path, searchTerm)
    /\ Len(Visible) < Len(Modules)

\* C10: with every type filter enabled (the initial activeTypes, and any
\* state in which every type checkbox is checked) and an empty search term,
\* the visible module list is exactly the module list, whatever the types
\* of the modules (js, css, image, font, json, wasm, html, map, unknown).
UnfilteredViewIsIdentity ==
    ( /\ Loaded
      /\ searchTerm = <<>>
      /\ \A t \in moduleTypes : isActive(activeTypes, t) )
        => Visible = Modules

\* The stats the webview would hold if its module list were the visible
\* modules.
StatsOfVisible == <<[stats[1] EXCEPT !.modules = Visible]>>

\* C11: the filter is idempotent: filtering the already-filtered module list
\* again, with the same search term and the same active types, returns that
\* same list, same elements in the same order.
FilterIsIdempotent ==
    Loaded =>
        filteredModules(StatsOfVisible, searchTerm, activeTypes) = Visible

\* C11's case: with a search term and a type switched off, the filter has
\* kept one module and dropped another.
FilteredListIsProperAndNonEmpty ==
    /\ Loaded
    /\ searchTerm # <<>>
    /\ \E t \in moduleTypes : ~isActive(activeTypes, t)
    /\ Visible # <<>>
    /\ Len(Visible) < Len(Modules)

\* The error the webview shows for a file that is not a stats file.
InvalidFormat ==
    << "Failed to load or process stats file: "
           \o "The selected file does not appear to be a valid Webpack stats.json." >>

\* The stats file is null or has none of modules, assets and chunks.
HasNoCollection ==
    \/ rawStats = NullStats
    \/ rawStats.modules = <<>> /\ rawStats.assets = <<>> /\ rawStats.chunks = <<>>

\* The collection is absent or empty.
NoEntries(collection) == collection = <<>> \/ collection[1] = <<>>

\* What the claim C12 says of one load; every step of the loader is the load
\* of rawStats.
LoadChecksFormat ==
    /\ HasNoCollection => stats' = <<>> /\ error' = InvalidFormat
    /\ ~HasNoCollection =>
           /\ error' # InvalidFormat
           /\ stats' # <<>> =>
                  /\ NoEntries(rawStats.modules) => stats'[1].modules = <<>>
                  /\ NoEntries(rawStats.assets) => stats'[1].assets = <<>>
                  /\ NoEntries(rawStats.chunks) => stats'[1].chunks = <<>>
           /\ ( /\ NoEntries(rawStats.modules)
                /\ NoEntries(rawStats.assets)
                /\ NoEntries(rawStats.chunks) ) => stats' # <<>> /\ error' = <<>>

\* C12: a load of a stats file that is null or has none of modules, assets
\* and chunks ends with the invalid-format error and without stats; a load
\* of a file that has one of the three, be it empty, is not rejected so, and
\* the stats it yields have an empty list for every collection that is
\* absent or empty (a file with no entry at all always yields stats).
FormatIsCheckedBeforeNormalization == [][LoadChecksFormat]_vars

\* C12's case: a file whose assets are present and empty and whose modules
\* and chunks are absent has been loaded.
EmptyAssetsFileLoaded ==
    /\ rawStats = RawStats(<<>>, << <<>> >>, <<>>, <<>>)
    /\ Loaded
    /\ Modules = <<>> /\ Assets = <<>> /\ Chunks = <<>>
    /\ error = <<>>

\* The raw modules of the stats file that have their name.
WellFormedModules ==
    IF rawStats.modules = <<>> THEN <<>>
    ELSE SelectSeq(rawStats.modules[1], LAMBDA m : m.name # undefined)

\* C13: a raw record that lacks its name or its size is skipped and the rest
\* is normalized: once a file that has one of the three collections is
\* loaded, the webview holds stats, with one module for every well-formed
\* raw module, in order, and no error.
MalformedEntriesAreSkipped ==
    ( /\ ~HasNoCollection
      /\ stats # <<>> \/ error # <<>> )
        => /\ Loaded
           /\ error = <<>>
           /\ Len(Modules) = Len(WellFormedModules)
           /\ \A i \in DOMAIN Modules :
                  /\ Modules[i].id = String(WellFormedModules[i].id)
                  /\ Modules[i].path = WellFormedModules[i].name

\* The module ids of the stats the webview holds.
ModuleIds == {Modules[i].id : i \in DOMAIN Modules}

\* <<>> or <<the first of ids that is a module id>>.
FirstModuleOf(ids) ==
    LET found == {k \in DOMAIN ids : ids[k] \in ModuleIds}
    IN  IF found = {} THEN <<>>
        ELSE << ids[CHOOSE k \in found : \A j \in found : k <= j] >>

\* The raw chunk has a non-empty list of names.
HasDeclaredName(c) == c.names # <<>> /\ c.names[1] # <<>>

\* The entrypoints the claim C14 expects of the chunks from i on.
RECURSIVE EntrypointsOfNamedChunks(_)
EntrypointsOfNamedChunks(i) ==
    IF i > Len(Chunks) THEN <<>>
    ELSE (IF HasDeclaredName(rawStats.chunks[1][i])
          THEN FirstModuleOf(Chunks[i].modules) ELSE <<>>)
             \o EntrypointsOfNamedChunks(i + 1)

\* C14: the entrypoints are, in chunk order, the first module id of the
\* chunk that is the id of a normalized module, for every chunk that has a
\* declared name and such a module; a chunk whose names list is absent or
\* empty contributes none.
EntrypointsComeFromNamedChunks ==
    Loaded => stats[1].entrypoints = EntrypointsOfNamedChunks(1)

\* The load ends with stats: the file is accepted and normalized.
Succeeds(file) == looksLikeStats(file.content) /\ ~normalizeThrows(file.content)

\* Every call of promptAndLoadStatsFile has returned and no message is in
\* flight.
LoadsSettled ==
    /\ loads # <<>>
    /\ \A l \in DOMAIN loads : loads[l].pc = "done"
    /\ toHost = <<>>
    /\ toWebview = <<>>

\* The one panel ever created is open and has had one message callback, so
\* that every load answers a message of its own.
OnePanelOneListener ==
    /\ panels = <<"open">>
    /\ Len(callbacks) = 1

\* C15: last load wins: once overlapping loads (that of WEBVIEW_READY and
\* those of REQUEST_LOAD_STATS_FILE) have all finished, in any order, the
\* webview's stats are those of the load requested last: the stats of its
\* file, or none when it failed.
LastLoadWins ==
    ( /\ OnePanelOneListener
      /\ LoadsSettled
      /\ \A l \in DOMAIN loads : loads[l].file # <<>> )
        => LET last == loads[Len(loads)].file[1]
           IN  IF Succeeds(last)
               THEN /\ stats # <<>>
                    /\ \E now \in Clock :
                           stats[1] = normalizeWebpackStats(last.content, now)
               ELSE stats = <<>>

\* The load has returned and its dialog had selected a file.
FinishedWithFile(l) == loads[l].pc = "done" /\ loads[l].file # <<>>

\* The messages the load posted are those of its outcome.
PostedItsOutcome(l) ==
    IF Succeeds(loads[l].file[1])
    THEN loads[l].posted = <<"BUILD_STATS_UPDATE", "FILE_PATH_UPDATE">>
    ELSE loads[l].posted = <<"ERROR">>

\* C17 as stated: every load for which a file was selected ends with
\* BUILD_STATS_UPDATE then FILE_PATH_UPDATE posted to the webview, or with
\* one ERROR posted; a failed load posts no BUILD_STATS_UPDATE.
EveryLoadPostsItsOutcome ==
    \A l \in DOMAIN loads : FinishedWithFile(l) => PostedItsOutcome(l)

\* C17 as amended: every load for which a file was selected and that ends
\* while the panel is open posts BUILD_STATS_UPDATE then FILE_PATH_UPDATE,
\* or one ERROR, and a failed load posts no BUILD_STATS_UPDATE; a load that
\* ends when the panel has been closed posts nothing.
EveryLoadPostsItsOutcomeToAnOpenPanel ==
    \A l \in DOMAIN loads :
        FinishedWithFile(l) =>
            IF loads[l].panelOpen THEN PostedItsOutcome(l)
            ELSE loads[l].posted = <<>>

\* C17's case: a load has ended with stats and another with an error, both
\* posted to the panel.
OneLoadPostedStatsAndOneAnError ==
    /\ \E l \in DOMAIN loads :
           loads[l].posted = <<"BUILD_STATS_UPDATE", "FILE_PATH_UPDATE">>
    /\ \E l \in DOMAIN loads : loads[l].posted = <<"ERROR">>

\* C18: at most one panel is open: currentPanel is the one open panel, or
\* is undefined when none is open, and then _disposables is empty.
AtMostOnePanelIsOpen ==
    /\ Cardinality(livePanels) <= 1
    /\ currentPanel # <<>> => livePanels = {currentPanel[1]}
    /\ currentPanel = <<>> => livePanels = {} /\ disposables = <<>>

\* C18's case: the first panel was closed, the command has created a second
\* one, and a further command has revealed it.
SecondPanelRevealed ==
    /\ panels = <<"disposed", "open">>
    /\ currentPanel = <<2>>
    /\ Len(callbacks) = 2

\* The node the treemap renders in the current state.
Selected == currentRootNode(Tree, currentPath)

\* C16: drill-down selects a node whose path is the currentPath joined by
\* '/', and the root when currentPath is empty or no node has that path;
\* never a node of another path.
DrillDownSelectsThePath ==
    Loaded =>
        LET tree == Tree
            selected == currentRootNode(tree, currentPath)
            withPath == {n \in DOMAIN tree : tree[n].data.path = join(currentPath)}
        IN  IF currentPath = <<>> \/ withPath = {}
            THEN selected = 1
            ELSE selected \in withPath

\* C16's case: the currentPath a/b selects the node a/b, two levels below
\* the root.
DrilledDownTwoLevels ==
    /\ Loaded
    /\ currentPath = << <<"a">>, <<"b">> >>
    /\ Selected # 1
    /\ Tree[Selected].data.path = <<"a", "/", "b">>

\* The characters of the paths, in the order of their codes.
Alphabet == <<".", "/">> \o Digits \o UpperCase \o <<"_">> \o LowerCase

CharCode(c) == CHOOSE i \in DOMAIN Alphabet : Alphabet[i] = c

\* The string s is t or sorts before t.
RECURSIVE NameNotAfter(_, _)
NameNotAfter(s, t) ==
    IF s = <<>> THEN TRUE
    ELSE IF t = <<>> THEN FALSE
    ELSE IF Head(s) = Head(t) THEN NameNotAfter(Tail(s), Tail(t))
    ELSE CharCode(Head(s)) < CharCode(Head(t))

\* C19 as stated: the children of every node are in the order of descending
\* value, and those of equal value in the order of their names.
ChildrenOrderedByValueThenName ==
    Loaded =>
        LET tree == Tree
        IN  \A n \in DOMAIN tree :
                \A i, j \in DOMAIN tree[n].children :
                    i < j =>
                        LET a == tree[tree[n].children[i]]
                            b == tree[tree[n].children[j]]
                        IN  \/ a.value > b.value
                            \/ /\ a.value = b.value
                               /\ NameNotAfter(a.data.name, b.data.name)

\* The place of child c in the children of a node as the tree was built.
InsertionPlace(node, c) ==
    CHOOSE k \in DOMAIN node.data.children : node.data.children[k] = c

\* C19 as amended: the children of every node are in the order of
\* descending value, and those of equal value in the order in which the
\* tree got them, that is the order in which the module list first names
\* them.
ChildrenOrderedByValueThenInsertion ==
    Loaded =>
        LET tree == Tree
        IN  \A n \in DOMAIN tree :
                /\ Range(tree[n].children) = Range(tree[n].data.children)
                /\ Len(tree[n].children) = Len(tree[n].data.children)
                /\ \A i, j \in DOMAIN tree[n].children :
                       i < j =>
                           LET a == tree[n].children[i]
                               b == tree[n].children[j]
                           IN  \/ tree[a].value > tree[b].value
                               \/ /\ tree[a].value = tree[b].value
                                  /\ InsertionPlace(tree[n], a)
                                         < InsertionPlace(tree[n], b)

\* C19's case: the root has two children of equal value, and the first is
\* the one whose name sorts last.
EqualChildrenInInsertionOrder ==
    /\ Loaded
    /\ Len(Tree[1].children) = 2
    /\ Tree[Tree[1].children[1]].value = Tree[Tree[1].children[2]].value
    /\ Tree[Tree[1].children[1]].data.name = <<"d", ".", "c", "s", "s">>
    /\ Tree[Tree[1].children[2]].data.name = <<"a">>

\* The links of the graph in the current state.
Links == links(Visible, 1)

\* The ids of the modules that pass the filter of the current state.
PassingIds == {Modules[i].id : i \in PassingPositions}

\* C20: the graph has a link from source to target exactly when target is
\* a dependency of a module source that passes the filter and a module
\* target passes the filter; no link has an end outside the visible
\* modules.
LinksJoinVisibleModules ==
    Loaded =>
        /\ \A link \in Range(Links) :
               link.source \in PassingIds /\ link.target \in PassingIds
        /\ \A i \in DOMAIN Modules :
               \A target \in Range(Modules[i].dependencies) :
                   ([source |-> Modules[i].id, target |-> target] \in Range(Links))
                       <=> (i \in PassingPositions /\ target \in PassingIds)

\* C20's case: a module is visible, a dependency of it is filtered out, and
\* the graph has no link for it.
LinkToHiddenModuleDropped ==
    /\ Loaded
    /\ \E i \in PassingPositions :
           \E target \in Range(Modules[i].dependencies) :
               /\ target \notin PassingIds
               /\ [source |-> Modules[i].id, target |-> target] \notin Range(Links)

\* The path p is the path q or the path of a folder above q.
IsPathPrefix(p, q) ==
    LET a == split(p)
        b == split(q)
    IN  Len(a) <= Len(b) /\ SubSeq(b, 1, Len(a)) = a

\* C21: the hierarchy is built only from the modules that pass the filter:
\* every node but the root lies on the path of a passing module, a node that
\* carries a module carries a passing one, and a node's own value is the
\* size.raw of the passing module it carries, or zero.
HierarchyHoldsOnlyPassingModules ==
    Loaded =>
        LET tree == Tree
        IN  /\ \A n \in 2..Len(tree) :
                   \E i \in PassingPositions :
                       IsPathPrefix(tree[n].data.path, Modules[i].path)
            /\ \A n \in DOMAIN tree :
                   IF tree[n].data.data = <<>>
                   THEN tree[n].data.value = 0
                   ELSE \E i \in PassingPositions :
                            /\ tree[n].data.data[1] = Modules[i]
                            /\ tree[n].data.value = Modules[i].size.raw
            /\ tree[1].value <=
                   SumSeq([k \in DOMAIN Modules |->
                              IF k \in PassingPositions
                              THEN Modules[k].size.raw ELSE 0])

\* C21's case: a module below a folder is filtered out, another module is
\* visible, and the tree has the visible module's node only.
FolderOfHiddenModuleAbsent ==
    /\ Loaded
    /\ \E i \in DOMAIN Modules :
           /\ i \notin PassingPositions
           /\ Len(split(Modules[i].path)) > 1
    /\ PassingPositions # {}
    /\ Len(Tree) = 2
    /\ Tree[1].value > 0

\* C22: chunk-module references to ids absent from the module collection
\* are omitted: every id in a normalized chunk's modules list is the id of
\* a normalized module, and a file whose only flaw is such a reference
\* loads without an error.
ChunkModulesAreModules ==
    /\ Loaded =>
           \A i \in DOMAIN Chunks :
               \A id \in Range(Chunks[i].modules) : id \in ModuleIds
    /\ (IsChunkFile(rawStats) /\ ~isLoading) => error = <<>>

\* C23: in every hierarchy tree, a node below the root carries a module
\* exactly when it has no children, a node without children has the type of
\* its module, and a node with children has the type folder; also when one
\* module's path is a prefix of another's, in either order of insertion.
ModuleNodesAreTheLeaves ==
    Loaded =>
        LET tree == Tree
        IN  \A n \in 2..Len(tree) :
                /\ tree[n].data.data # <<>> <=> tree[n].children = <<>>
                /\ tree[n].children = <<>> =>
                       /\ tree[n].data.data # <<>>
                       /\ tree[n].data.type = tree[n].data.data[1].type
                /\ tree[n].children # <<>> => tree[n].data.type = "folder"

\* The orders of the positions 1..n.
OrdersOf(n) ==
    {p \in [1..n -> 1..n] : \A i, j \in 1..n : p[i] = p[j] => i = j}

\* The modules normalized from the raw modules of the file taken in the
\* order p.
ModulesInOrder(p) ==
    LET rawModules == rawModulesOf(rawStats)
    IN  normalizeModules([rawStats EXCEPT
            !.modules = <<[i \in DOMAIN rawModules |-> rawModules[p[i]]]>>])

\* The ids that the records of id in modules depend on, and the ids that
\* depend on them.
DependenciesOf(modules, id) ==
    UNION {Range(modules[i].dependencies) :
               i \in {k \in DOMAIN modules : modules[k].id = id}}
DependentsOf(modules, id) ==
    UNION {Range(modules[i].dependents) :
               i \in {k \in DOMAIN modules : modules[k].id = id}}

\* C24: dependency resolution does not depend on the order of the raw
\* module list: for every permutation of the raw modules of the loaded
\* file, each module id has the same set of dependencies and the same set
\* of dependents as in the loaded stats.
ResolutionIgnoresModuleOrder ==
    Loaded =>
        LET modules == Modules
        IN  \A p \in OrdersOf(Len(modules)) :
                LET permuted == ModulesInOrder(p)
                IN  \A id \in {modules[i].id : i \in DOMAIN modules} :
                        /\ DependenciesOf(permuted, id) = DependenciesOf(modules, id)
                        /\ DependentsOf(permuted, id) = DependentsOf(modules, id)

\* C24's case: a module of the loaded file depends on a module that comes
\* later in the list, and a module depends on one that comes earlier.
ForwardAndBackwardReasonsLoaded ==
    /\ Loaded
    /\ \E i, j \in DOMAIN Modules :
           /\ i < j
           /\ Modules[i].id # Modules[j].id
           /\ Modules[j].id \in Range(Modules[i].dependencies)
           /\ Modules[i].id \in Range(Modules[j].dependents)
    /\ \E i, j \in DOMAIN Modules :
           /\ i > j
           /\ Modules[i].id # Modules[j].id
           /\ Modules[j].id \in Range(Modules[i].dependencies)

\* The sequence s has no value twice.
NoDuplicates(s) == \A i, j \in DOMAIN s : s[i] = s[j] => i = j

\* C25: dependencies and dependents are sets: no id occurs more than once
\* in a normalized module's dependencies list or in its dependents list,
\* also when the reasons of a raw module name the same module twice.
DependenciesAreSets ==
    Loaded =>
        \A i \in DOMAIN Modules :
            /\ NoDuplicates(Modules[i].dependencies)
            /\ NoDuplicates(Modules[i].dependents)

\* C26: each message sent by the webview is handled by exactly one host
\* callback, however often the command was invoked and the panel closed: a
\* step in which the host takes a WEBVIEW_READY or REQUEST_LOAD_STATS_FILE
\* message from the webview opens exactly one file dialog.
OneDialogPerMessage ==
    [][ ( /\ currentPanel # <<>>
          /\ currentPanel' = currentPanel
          /\ toHost # <<>>
          /\ toHost' = Tail(toHost)
          /\ requestsLoad(Head(toHost)) )
            => Len(loads') = Len(loads) + 1 ]_vars

\* C27: every load started from the webview ends its loading state: once
\* handleLoadStats has set isLoading and posted REQUEST_LOAD_STATS_FILE, a
\* message from the host (or a new webview) sets isLoading back to false,
\* whether the user selects a file or cancels the dialog.
LoadingEnds == isLoading ~> ~isLoading

\* C28: the webview never holds an error and build stats at the same time:
\* error is non-null only when stats is null, after any sequence of host
\* messages, file-path edits and Load clicks.
ErrorOnlyWithoutStats == error # <<>> => stats = <<>>

\* C29: in every reachable state of the treemap view currentPath is empty:
\* the rendered cells are nodes without children, a click on such a cell
\* leaves currentPath as it is, and a breadcrumb click only truncates it.
CurrentPathStaysEmpty == currentPath = <<>>

\* C29's case: the treemap shows, under a search term, a tree with a folder
\* below the root, whose cells are the leaves below it.
FolderCellsShown ==
    /\ visualizationShown(app)
    /\ searchTerm # <<>>
    /\ \E n \in 2..Len(Tree) :
           /\ Tree[n].children # <<>>
           /\ \E c \in Range(leaves(Tree, 1)) : Tree[c].data.path # <<>>
    /\ currentPath = <<>>

\* C30: the root's value is the sum of size.raw over the modules the
\* hierarchy is built from, also when two modules have the same path or one
\* module's path is a prefix of another's: no size is lost or counted
\* twice.
RootValueIsSumOfModuleSizes ==
    Loaded =>
        LET modules == Visible
        IN  Tree[1].value =
                SumSeq([i \in DOMAIN modules |-> modules[i].size.raw])

=============================================================================
